---- MODULE Spec2Model ----
(***************************************************************************)
(* Model of src/util/generate_datadog_schema.py: DatadogSchemaGenerator,   *)
(* the comment-directive parser that turns a templated configuration file  *)
(* into a JSON-Schema document.                                            *)
(*                                                                         *)
(* Text is modelled as TLA+ strings, one string per line of the document   *)
(* (without its line terminator, which every use in the source strips).    *)
(* The Python string operations and the two regular expressions are        *)
(* written out on characters, so a line is classified by what it contains, *)
(* exactly as the source does.  Indices are the 0-based indices of the     *)
(* source; Line(ls, k) is ls[k] of the source.                             *)
(***************************************************************************)
EXTENDS Integers, Sequences, FiniteSets, TLC

(***************************************************************************)
(* Bounds of the model.                                                    *)
(***************************************************************************)
\* longest document built from the full line catalogue
MaxLines == 3
\* longest document built from the core line catalogue
MaxLongLines == 5
\* a generator object is used again only on documents of at most this length
MaxReuseLines == 1
\* number of parse_template_file calls on one generator object
MaxParses == 2

\* lines of a document parsed with its scan loops taken one iteration at a time
MaxScanLines == 4

\* command-line arguments after the template path
MaxArgs == 2

\* lines of the template file of a command-line run
MaxMainLines == 2

(***************************************************************************)
(* Python str operations.                                                  *)
(***************************************************************************)
Char(s, k) == SubSeq(s, k, k)

Whitespace == {" ", "\t"}

WordChars ==
    { "a","b","c","d","e","f","g","h","i","j","k","l","m","n","o","p","q","r","s","t","u","v","w","x","y","z",
      "A","B","C","D","E","F","G","H","I","J","K","L","M","N","O","P","Q","R","S","T","U","V","W","X","Y","Z",
      "0","1","2","3","4","5","6","7","8","9","_" }

Digits == { "0","1","2","3","4","5","6","7","8","9" }

UpperToLower ==
    [ c \in { "A","B","C","D","E","F","G","H","I","J","K","L","M","N","O","P","Q","R","S","T","U","V","W","X","Y","Z" } |->
        CASE c = "A" -> "a" [] c = "B" -> "b" [] c = "C" -> "c" [] c = "D" -> "d"
          [] c = "E" -> "e" [] c = "F" -> "f" [] c = "G" -> "g" [] c = "H" -> "h"
          [] c = "I" -> "i" [] c = "J" -> "j" [] c = "K" -> "k" [] c = "L" -> "l"
          [] c = "M" -> "m" [] c = "N" -> "n" [] c = "O" -> "o" [] c = "P" -> "p"
          [] c = "Q" -> "q" [] c = "R" -> "r" [] c = "S" -> "s" [] c = "T" -> "t"
          [] c = "U" -> "u" [] c = "V" -> "v" [] c = "W" -> "w" [] c = "X" -> "x"
          [] c = "Y" -> "y" [] c = "Z" -> "z" ]

\* number of whitespace characters of s from position k on, up to the first other character
RECURSIVE WsRun(_, _)
WsRun(s, k) ==
    IF k <= Len(s) /\ Char(s, k) \in Whitespace THEN 1 + WsRun(s, k + 1) ELSE 0

\* number of whitespace characters of s from position k back, down to the first other character
RECURSIVE WsRunBack(_, _)
WsRunBack(s, k) ==
    IF k >= 1 /\ Char(s, k) \in Whitespace THEN 1 + WsRunBack(s, k - 1) ELSE 0

\* number of leading whitespace characters of s
LeadingWs(s) == WsRun(s, 1)

\* number of trailing whitespace characters of s
TrailingWs(s) == WsRunBack(s, Len(s))

\* str.lstrip()
lstrip(s) == SubSeq(s, LeadingWs(s) + 1, Len(s))

\* str.rstrip()
rstrip(s) == SubSeq(s, 1, Len(s) - TrailingWs(s))

\* str.strip()
strip(s) == lstrip(rstrip(s))

\* str.startswith(p)
startswith(s, p) == Len(s) >= Len(p) /\ SubSeq(s, 1, Len(p)) = p

\* str.endswith(p)
endswith(s, p) == Len(s) >= Len(p) /\ SubSeq(s, Len(s) - Len(p) + 1, Len(s)) = p

\* p in s
contains(s, p) == \E k \in 1..(Len(s) - Len(p) + 1) : SubSeq(s, k, k + Len(p) - 1) = p

\* s at position k (1-based) continues with p
MatchAt(s, k, p) == k + Len(p) - 1 <= Len(s) /\ SubSeq(s, k, k + Len(p) - 1) = p

RECURSIVE lower(_)
\* str.lower()
lower(s) ==
    IF s = "" THEN ""
    ELSE LET c == Head(s)
         IN  (IF c \in DOMAIN UpperToLower THEN UpperToLower[c] ELSE c) \o lower(Tail(s))

\* lines[k] of the source (0-based)
Line(ls, k) == ls[k + 1]

\* the value None where the source holds an optional name or text
None == ""

(***************************************************************************)
(* Optional texts: <<>> is None, <<t>> is the text t.  Section names use   *)
(* the empty string for None: a name is a non-empty run of word            *)
(* characters, and the source tests names by truthiness only.              *)
(***************************************************************************)
Absent == <<>>

Present(t) == <<t>>

(***************************************************************************)
(* The directive patterns.                                                 *)
(***************************************************************************)
\* length of the longest run of \w characters of s that starts at position k
RECURSIVE WordRun(_, _)
WordRun(s, k) ==
    IF k <= Len(s) /\ Char(s, k) \in WordChars THEN 1 + WordRun(s, k + 1) ELSE 0

\* position of the first '-' of s at or after position k, 0 when there is none
RECURSIVE FirstHyphen(_, _)
FirstHyphen(s, k) ==
    IF k > Len(s) THEN 0
    ELSE IF Char(s, k) = "-" THEN k
    ELSE FirstHyphen(s, k + 1)

ParamPrefix == "## @param "

DefaultClause == " - default: "

NoParam == [matched |-> FALSE]

\* re.match(r'## @param (\w+) - ([^-]+) - (optional|required)(?: - default: (.+))?', comment.strip())
\* and the result dictionary built from its groups
parse_param_comment(comment) ==
    LET s      == strip(comment)
        nstart == Len(ParamPrefix) + 1
        nlen   == WordRun(s, nstart)
        tstart == nstart + nlen + 3
        h      == FirstHyphen(s, tstart)
        fstart == h + 2
        q      == fstart + 8
    IN  IF /\ startswith(s, ParamPrefix)
           /\ nlen >= 1
           /\ MatchAt(s, nstart + nlen, " - ")
           /\ h >= tstart + 2
           /\ MatchAt(s, h - 1, " - ")
           /\ (MatchAt(s, fstart, "optional") \/ MatchAt(s, fstart, "required"))
        THEN [ matched     |-> TRUE,
               name        |-> SubSeq(s, nstart, nstart + nlen - 1),
               type        |-> strip(SubSeq(s, tstart, h - 2)),
               required    |-> MatchAt(s, fstart, "required"),
               default     |-> IF MatchAt(s, q, DefaultClause) /\ Len(s) >= q + Len(DefaultClause)
                               THEN Present(strip(SubSeq(s, q + Len(DefaultClause), Len(s))))
                               ELSE Absent,
               description |-> "" ]
        ELSE NoParam

SectionSuffix == " - custom object - optional"

\* re.match(r'## @param (\w+) - custom object - optional', comment.strip()); None when it fails
parse_section_comment(comment) ==
    LET s      == strip(comment)
        nstart == Len(ParamPrefix) + 1
        nlen   == WordRun(s, nstart)
    IN  IF /\ startswith(s, ParamPrefix)
           /\ nlen >= 1
           /\ MatchAt(s, nstart + nlen, SectionSuffix)
        THEN SubSeq(s, nstart, nstart + nlen - 1)
        ELSE None

(***************************************************************************)
(* Type coercion.                                                          *)
(***************************************************************************)
\* yaml_type_to_json_type without lower(): the table is looked up case-sensitively
yaml_type_to_json_type_case_sensitive(yaml_type) ==
    LET t == strip(yaml_type)
    IN  IF t \in {"string", "boolean", "integer", "number"} THEN t
        ELSE IF t \in {"list of strings", "list of key:value elements", "list of custom objects",
                       "space separated list of strings"} THEN "array"
        ELSE IF t \in {"list of key:value strings", "custom object", "map"} THEN "object"
        ELSE "string"

yaml_type_to_json_type(yaml_type) ==
    LET t == strip(lower(yaml_type))
    IN  CASE t = "string"                          -> "string"
          [] t = "boolean"                         -> "boolean"
          [] t = "integer"                         -> "integer"
          [] t = "number"                          -> "number"
          [] t = "list of strings"                 -> "array"
          [] t = "list of key:value elements"      -> "array"
          [] t = "list of custom objects"          -> "array"
          [] t = "space separated list of strings" -> "array"
          [] t = "list of key:value strings"       -> "object"
          [] t = "custom object"                   -> "object"
          [] t = "duration"                        -> "string"
          [] t = "map"                             -> "object"
          [] OTHER                                 -> "string"

get_array_items_schema(yaml_type) ==
    LET t == strip(lower(yaml_type))
    IN  IF contains(t, "strings") THEN [type |-> "string"]
        ELSE IF contains(t, "key:value") THEN [type |-> "string"]
        ELSE IF contains(t, "custom objects") THEN [type |-> "object"]
        ELSE [type |-> "string"]

(***************************************************************************)
(* Default value coercion.  A coerced value is a record: kind is the       *)
(* Python type of the value ("none" for None), num the value of a bool     *)
(* (0, 1) or an int, text the value of a str.  A float is kept as the      *)
(* literal it was read from: no claim compares two floats.                 *)
(***************************************************************************)
NoneValue == [kind |-> "none", num |-> 0, text |-> ""]

BoolValue(b) == [kind |-> "bool", num |-> IF b THEN 1 ELSE 0, text |-> ""]

IntValue(n) == [kind |-> "int", num |-> n, text |-> ""]

FloatValue(t) == [kind |-> "float", num |-> 0, text |-> t]

StrValue(t) == [kind |-> "str", num |-> 0, text |-> t]

EmptyList == [kind |-> "list", num |-> 0, text |-> ""]

DigitValue(c) ==
    CASE c = "0" -> 0 [] c = "1" -> 1 [] c = "2" -> 2 [] c = "3" -> 3 [] c = "4" -> 4
      [] c = "5" -> 5 [] c = "6" -> 6 [] c = "7" -> 7 [] c = "8" -> 8 [] c = "9" -> 9

\* digit (["_"] digit)* : the digit groups Python accepts in int() and float()
IsDigitPart(s) ==
    /\ Len(s) >= 1
    /\ \A k \in 1..Len(s) : Char(s, k) \in Digits \cup {"_"}
    /\ Char(s, 1) # "_"
    /\ Char(s, Len(s)) # "_"
    /\ ~ contains(s, "__")

HasSign(s) == Len(s) >= 1 /\ Char(s, 1) \in {"+", "-"}

Unsigned(s) == IF HasSign(s) THEN Tail(s) ELSE s

\* int(s) does not raise ValueError (s already stripped)
IsIntLiteral(s) == IsDigitPart(Unsigned(s))

RECURSIVE DigitsValue(_, _)
DigitsValue(s, acc) ==
    IF s = "" THEN acc
    ELSE IF Head(s) = "_" THEN DigitsValue(Tail(s), acc)
    ELSE DigitsValue(Tail(s), 10 * acc + DigitValue(Head(s)))

\* int(s)
IntOf(s) ==
    LET v == DigitsValue(Unsigned(s), 0)
    IN  IF HasSign(s) /\ Char(s, 1) = "-" THEN 0 - v ELSE v

\* position of the first character of s that is in cs, 0 when there is none
RECURSIVE FirstOf(_, _, _)
FirstOf(s, cs, k) ==
    IF k > Len(s) THEN 0
    ELSE IF Char(s, k) \in cs THEN k
    ELSE FirstOf(s, cs, k + 1)

\* float(s) does not raise ValueError, for a stripped s that contains "."
IsFloatLiteral(s) ==
    LET u    == Unsigned(s)
        e    == FirstOf(u, {"e", "E"}, 1)
        mant == IF e = 0 THEN u ELSE SubSeq(u, 1, e - 1)
        dot  == FirstOf(mant, {"."}, 1)
        ip   == SubSeq(mant, 1, dot - 1)
        fp   == SubSeq(mant, dot + 1, Len(mant))
    IN  /\ dot # 0
        /\ ip = "" \/ IsDigitPart(ip)
        /\ fp = "" \/ IsDigitPart(fp)
        /\ ~ (ip = "" /\ fp = "")
        /\ e = 0 \/ IsDigitPart(Unsigned(SubSeq(u, e + 1, Len(u))))

Placeholders == { "<HOSTNAME_NAME>", "<ENDPOINT>:<PORT>", "<TAG_KEY>:<TAG_VALUE>" }

\* parse_default_value without the test of the placeholder tokens (lines 179-181)
parse_default_value_keeping_placeholders(default_str) ==
    IF default_str = "" THEN NoneValue
    ELSE LET d == strip(default_str)
         IN  IF lower(d) \in {"true", "false"} THEN BoolValue(lower(d) = "true")
             ELSE IF contains(d, ".") /\ IsFloatLiteral(d) THEN FloatValue(d)
             ELSE IF ~ contains(d, ".") /\ IsIntLiteral(d) THEN IntValue(IntOf(d))
             ELSE IF startswith(d, "\"") /\ endswith(d, "\"") THEN StrValue(SubSeq(d, 2, Len(d) - 1))
             ELSE IF startswith(d, "'") /\ endswith(d, "'") THEN StrValue(SubSeq(d, 2, Len(d) - 1))
             ELSE StrValue(d)

\* parse_default_value that tests the booleans without lower(): exact 'true' and 'false' only
parse_default_value_exact_booleans(default_str) ==
    IF default_str = "" THEN NoneValue
    ELSE LET d == strip(default_str)
         IN  IF d \in {"true", "false"} THEN BoolValue(d = "true")
             ELSE IF contains(d, ".") /\ IsFloatLiteral(d) THEN FloatValue(d)
             ELSE IF ~ contains(d, ".") /\ IsIntLiteral(d) THEN IntValue(IntOf(d))
             ELSE IF startswith(d, "\"") /\ endswith(d, "\"") THEN StrValue(SubSeq(d, 2, Len(d) - 1))
             ELSE IF startswith(d, "'") /\ endswith(d, "'") THEN StrValue(SubSeq(d, 2, Len(d) - 1))
             ELSE IF d \in Placeholders THEN NoneValue
             ELSE StrValue(d)

parse_default_value(default_str) ==
    IF default_str = "" THEN NoneValue
    ELSE LET d == strip(default_str)
         IN  IF lower(d) \in {"true", "false"} THEN BoolValue(lower(d) = "true")
             ELSE IF contains(d, ".") /\ IsFloatLiteral(d) THEN FloatValue(d)
             ELSE IF ~ contains(d, ".") /\ IsIntLiteral(d) THEN IntValue(IntOf(d))
             ELSE IF startswith(d, "\"") /\ endswith(d, "\"") THEN StrValue(SubSeq(d, 2, Len(d) - 1))
             ELSE IF startswith(d, "'") /\ endswith(d, "'") THEN StrValue(SubSeq(d, 2, Len(d) - 1))
             ELSE IF d \in Placeholders THEN NoneValue
             ELSE StrValue(d)

(***************************************************************************)
(* What the loops of the source compute from one line.  line_facts(l) has  *)
(* one field per expression; LineFacts tabulates it over the lines the     *)
(* documents are made of, so that each is computed once.                   *)
(***************************************************************************)
line_facts(l) ==
    LET line == strip(l)
    IN  [ line              |-> line,                               \* lines[i].strip()
          indent_level      |-> LeadingWs(rstrip(l)),               \* len(original_line) - len(original_line.lstrip())
          is_comment        |-> startswith(line, "##"),
          is_param          |-> startswith(line, "## @param"),
          is_env            |-> startswith(line, "## @env"),
          is_template       |-> startswith(line, "{{"),
          has_end           |-> contains(line, "end"),              \* "end" in line
          has_custom_object |-> contains(line, "custom object"),    \* "custom object" in line
          desc_line         |-> strip(SubSeq(line, 3, Len(line))),  \* line[2:].strip()
          section_name      |-> parse_section_comment(line),
          param_info        |-> parse_param_comment(line) ]

(***************************************************************************)
(* The schema document.  A JSON object is a function from its keys.        *)
(***************************************************************************)
EmptyMap == [k \in {} |-> k]

\* d[k] = v on a dictionary
Put(d, k, v) == [x \in (DOMAIN d) \cup {k} |-> IF x = k THEN v ELSE d[x]]

\* self.schema as __init__ builds it
InitSchema ==
    ("$schema" :> "http://json-schema.org/draft-07/schema#")
        @@ ("title" :> "Datadog Agent Configuration")
        @@ ("type" :> "object")
        @@ ("properties" :> EmptyMap)
        @@ ("additionalProperties" :> FALSE)

\* SectionNode without the 'properties' mapping of line 260
SectionNode_without_properties(section_name) ==
    [ type        |-> "object",
      description |-> "Configuration for " \o section_name ]

\* the node a section directive stores
SectionNode(section_name) ==
    [ type        |-> "object",
      properties  |-> EmptyMap,
      description |-> "Configuration for " \o section_name ]

(***************************************************************************)
(* Documents.  The full catalogue has one line of every kind the parser    *)
(* tells apart; the core catalogue has the lines that open and close       *)
(* sections and place parameters, for longer documents; the directive      *)
(* documents spell one directive for every type text and default text.     *)
(***************************************************************************)
CoreLines ==
    { "## @param logs - custom object - optional",
      "## @param apm - custom object - optional",
      "## @param logs - string - required",
      "## @param path - string - required - default: <HOSTNAME_NAME>",
      "logs:",
      "  path: /var/log",
      "{{ end }}" }

FullLines ==
    CoreLines \cup
    { "",
      "{{ if .Backend }}",
      "{{ with .logs }}",
      "## @param tags - list of strings - optional",
      "## @param objs - list of custom objects - optional",
      "## @param",
      "## @env DD_LOGS",
      "## Log settings." }

TypeTexts ==
    { "string", "boolean", "integer", "number", "duration", "map",
      "custom object", "list of strings", "list of key:value elements",
      "list of custom objects", "space separated list of strings",
      "list of key:value strings", "List of Strings", "ip address" }

DefaultTexts ==
    { "30", "true", "1.5", "\"/var/log\"", "info", "custom object",
      "<HOSTNAME_NAME>", "<ENDPOINT>:<PORT>", "<TAG_KEY>:<TAG_VALUE>" }

\* a directive written in the grammar '## @param name - type - flag[ - default: text]'
Directive(name, type, flag, default) ==
    ParamPrefix \o name \o " - " \o type \o " - " \o flag
        \o (IF default # Absent THEN DefaultClause \o default[1] ELSE "")

Directives ==
    { Directive("key", t, f, d) :
        t \in TypeTexts, f \in {"optional", "required"},
        d \in {Absent} \cup {Present(x) : x \in DefaultTexts} }

ConfigLines == {"key: v", "  key: v"}

SeqsUpTo(S, n) == UNION { [1..m -> S] : m \in 0..n }

DirectiveDocs ==
    { <<d, c>> : d \in Directives, c \in ConfigLines }
        \cup { <<"## @param logs - custom object - optional", d, "  key: v">> : d \in Directives }

\* lines that start with the directive marker and match neither pattern
MalformedLines ==
    { "## @param", "## @param key - string", "## @param logs - custom object",
      "## @param key - comma-separated list - optional" }

\* a malformed line inside an open section and inside the comment block of a parameter
MalformedDocs ==
    { <<"## @param logs - custom object - optional", m, "## @param tags - list of strings - optional", c>> :
        m \in MalformedLines, c \in ConfigLines }
        \cup { <<"## @param logs - string - required", "## Log settings.", m, "## Log settings.", c>> :
                  m \in MalformedLines, c \in ConfigLines }

Docs ==
    SeqsUpTo(FullLines, MaxLines) \cup SeqsUpTo(CoreLines, MaxLongLines)
        \cup DirectiveDocs \cup MalformedDocs

\* the lines of the documents extract_description is applied to on its own
DescLines ==
    { "## Log settings.", "##", "  ## Indented note.", "##no space", "# single",
      "## @param path - string - required", "## @param",
      "## @param logs - custom object - optional", "## @env DD_LOGS", "logs:", "" }

DescDocs == SeqsUpTo(DescLines, MaxLines)

\* the lines of the documents find_parameter_line_indent is applied to on its own
IndentLines ==
    { "## @param key - string - optional", "## Log settings.", "  ## Indented note.",
      "", "   ", "{{ end }}", "  {{ if .Backend }}", "# single",
      "key: v", "  key: v", "\tkey: v", "    key: v  " }

\* a directive, a blank line or a template marker, and then another directive with its
\* configuration line
AdjacentDirectiveDocs ==
    { <<"## @param key - string - optional", g, "## @param key - string - optional", c>> :
        g \in {"", "{{ end }}"}, c \in {"key: v", "  key: v"} }

IndentDocs == SeqsUpTo(IndentLines, MaxLines) \cup AdjacentDirectiveDocs

\* the lines of the documents find_section_context is applied to on its own
ContextLines ==
    { "## @param logs - custom object - optional", "## @param apm - custom object - optional",
      "## @param logs - custom object", "## @param objs - list of custom objects - optional",
      "## @param path - string - required - default: <HOSTNAME_NAME>",
      "{{ end }}", "{{ if .Backend }}", "{{ with .logs }}", "logs:", "" }

ContextDocs == SeqsUpTo(ContextLines, MaxLines)

\* every line a document can hold
KnownLines ==
    FullLines \cup Directives \cup ConfigLines \cup MalformedLines \cup DescLines \cup IndentLines

LineFacts == [l \in KnownLines |-> line_facts(l)] @@ EmptyMap

\* the facts of a line of a document
Facts(l) == LineFacts[l]

\* the type texts and the default texts of the directives of the documents
KnownTypeTexts ==
    { LineFacts[l].param_info.type : l \in { x \in KnownLines : LineFacts[x].param_info.matched } }

KnownDefaultTexts ==
    { LineFacts[l].param_info.default[1] :
        l \in { x \in KnownLines : /\ LineFacts[x].param_info.matched
                                   /\ LineFacts[x].param_info.default # Absent } }

\* yaml_type_to_json_type and get_array_items_schema of each type text, computed once
TypeFacts ==
    [ t \in KnownTypeTexts |->
        [ json_type |-> yaml_type_to_json_type(t), items |-> get_array_items_schema(t) ] ] @@ EmptyMap

\* parse_default_value of each default text, computed once
DefaultFacts == [ d \in KnownDefaultTexts |-> parse_default_value(d) ] @@ EmptyMap

(***************************************************************************)
(* The node of a parameter.                                                *)
(***************************************************************************)
\* lines 306-310: the node gets the parsed default unless there is none
add_default(node, default_val) ==
    IF default_val # NoneValue THEN Put(node, "default", default_val) ELSE node

\* handle_arrays without lines 315-316: an array gets no default of its own
handle_arrays_without_array_default(node, json_type, items) ==
    IF json_type = "array" THEN Put(node, "items", items) ELSE node

\* lines 313-316: an array node gets its items and, when it has no default, an empty list
handle_arrays(node, json_type, items) ==
    IF json_type = "array"
    THEN LET a == Put(node, "items", items)
         IN  IF "default" \notin DOMAIN a THEN Put(a, "default", EmptyList) ELSE a
    ELSE node

\* lines 319-320: an object node allows additional properties
handle_objects(node, json_type) ==
    IF json_type = "object" THEN Put(node, "additionalProperties", TRUE) ELSE node

\* property_schema as parse_template_file builds it from param_info
property_schema(param_info) ==
    handle_objects(
        handle_arrays(
            add_default([type |-> TypeFacts[param_info.type].json_type,
                         description |-> param_info.description],
                        IF param_info.default # Absent
                        THEN DefaultFacts[param_info.default[1]]
                        ELSE NoneValue),
            TypeFacts[param_info.type].json_type,
            TypeFacts[param_info.type].items),
        TypeFacts[param_info.type].json_type)


(***************************************************************************)
(* The scans over the document.                                            *)
(***************************************************************************)
\* description_lines without the test for '## @env': the scan runs through the marker
RECURSIVE description_lines_through_env(_, _)
description_lines_through_env(ls, k) ==
    IF ~ (k < Len(ls) /\ Facts(Line(ls, k)).is_comment) THEN <<>>
    ELSE LET f == Facts(Line(ls, k))
         IN  IF f.is_param THEN <<>>
             ELSE (IF f.desc_line # "" THEN <<f.desc_line>> ELSE <<>>)
                      \o description_lines_through_env(ls, k + 1)

\* the texts collected by the loop of extract_description from index k on
RECURSIVE description_lines(_, _)
description_lines(ls, k) ==
    IF ~ (k < Len(ls) /\ Facts(Line(ls, k)).is_comment) THEN <<>>
    ELSE LET f == Facts(Line(ls, k))
         IN  IF f.is_param \/ f.is_env THEN <<>>
             ELSE (IF f.desc_line # "" THEN <<f.desc_line>> ELSE <<>>) \o description_lines(ls, k + 1)

\* " ".join(ts)
RECURSIVE join(_)
join(ts) ==
    IF Len(ts) = 0 THEN ""
    ELSE IF Len(ts) = 1 THEN ts[1]
    ELSE ts[1] \o " " \o join(Tail(ts))

extract_description(ls, start_idx) == join(description_lines(ls, start_idx + 1))

\* first loop of find_parameter_line_indent: the index after the comment lines from k on
RECURSIVE skip_description(_, _)
skip_description(ls, k) ==
    IF k < Len(ls) /\ Facts(Line(ls, k)).is_comment
    THEN skip_description(ls, k + 1)
    ELSE k

\* find_parameter_line_indent without the test for '{{': a template marker counts as content
RECURSIVE parameter_line_indent_at_markers(_, _)
parameter_line_indent_at_markers(ls, k) ==
    IF ~ (k < Len(ls)) THEN 0
    ELSE LET f == Facts(Line(ls, k))
         IN  IF f.line # "" /\ ~ f.is_comment
             THEN f.indent_level
             ELSE parameter_line_indent_at_markers(ls, k + 1)

\* second loop of find_parameter_line_indent
RECURSIVE parameter_line_indent(_, _)
parameter_line_indent(ls, k) ==
    IF ~ (k < Len(ls)) THEN 0
    ELSE LET f == Facts(Line(ls, k))
         IN  IF f.line # "" /\ ~ f.is_comment /\ ~ f.is_template
             THEN f.indent_level
             ELSE parameter_line_indent(ls, k + 1)

find_parameter_line_indent(ls, param_comment_idx) ==
    parameter_line_indent(ls, skip_description(ls, param_comment_idx + 1))

\* determine_target_section without its first test: the indentation is not looked at
determine_target_section_ignoring_indent(current_section, param_indent, section_stack) ==
    IF current_section # None THEN current_section ELSE None

determine_target_section(current_section, param_indent, section_stack) ==
    IF param_indent = 0 THEN None
    ELSE IF current_section # None /\ param_indent > 0 THEN current_section
    ELSE None

\* the loop of find_section_context, from index k downwards
RECURSIVE section_context(_, _)
section_context(ls, k) ==
    IF ~ (k >= 0) THEN None
    ELSE LET f == Facts(Line(ls, k))
         IN  IF f.is_param /\ f.has_custom_object /\ f.section_name # None THEN f.section_name
             ELSE IF f.is_template /\ f.has_end THEN None
             ELSE section_context(ls, k - 1)

find_section_context(ls, param_idx) == section_context(ls, param_idx - 1)

(***************************************************************************)
(* One iteration of the loop of parse_template_file, by kind of line.      *)
(***************************************************************************)
IsEmptyLine(l) == Facts(l).line = ""

IsTemplateDirective(l) == ~ IsEmptyLine(l) /\ Facts(l).is_template

IsSectionComment(l) ==
    /\ ~ IsEmptyLine(l) /\ ~ IsTemplateDirective(l)
    /\ Facts(l).is_param /\ Facts(l).has_custom_object

IsParamComment(l) ==
    /\ ~ IsEmptyLine(l) /\ ~ IsTemplateDirective(l)
    /\ Facts(l).is_param /\ ~ Facts(l).has_custom_object

IsOtherLine(l) ==
    ~ IsEmptyLine(l) /\ ~ IsTemplateDirective(l) /\ ~ Facts(l).is_param

\* template_stack that empties the stack at a close marker instead of popping one entry
template_stack_popping_all(section_stack, l) ==
    IF Facts(l).has_end THEN <<>> ELSE section_stack

\* the section stack after a template directive
template_stack(section_stack, l) ==
    IF Facts(l).has_end /\ Len(section_stack) > 0
    THEN SubSeq(section_stack, 1, Len(section_stack) - 1)
    ELSE section_stack

\* template_current without line 246: the popped section stays the current one
template_current_stale(current_section, section_stack, l) == current_section

\* template_current that forgets the new top: after a pop there is no current section
template_current_cleared(current_section, section_stack, l) ==
    IF Facts(l).has_end /\ Len(section_stack) > 0 THEN None ELSE current_section

\* current_section after a template directive
template_current(current_section, section_stack, l) ==
    IF Facts(l).has_end /\ Len(section_stack) > 0
    THEN LET popped == template_stack(section_stack, l)
         IN  IF Len(popped) > 0 THEN popped[Len(popped)] ELSE None
    ELSE current_section

\* self.schema after a section comment
section_schema(sch, l) ==
    LET section_name == Facts(l).section_name
    IN  IF section_name # None
        THEN Put(sch, "properties", Put(sch["properties"], section_name, SectionNode(section_name)))
        ELSE sch

\* param_info of a parameter comment, with its description
param_info_at(ls, k) ==
    LET info == Facts(Line(ls, k)).param_info
    IN  IF info.matched THEN [info EXCEPT !.description = extract_description(ls, k)] ELSE info

\* target_section of the parameter comment at index k
target_section_at(ls, k, current_section, section_stack) ==
    LET param_line_indent == find_parameter_line_indent(ls, k)
        target            == determine_target_section(current_section, param_line_indent, section_stack)
    IN  IF target = None /\ param_line_indent > 0 /\ find_section_context(ls, k) # None
        THEN find_section_context(ls, k)
        ELSE target

\* self.schema["properties"][target_section]["properties"] raises KeyError
target_props_raises(sch, target_section) ==
    /\ target_section # None
    /\ \/ target_section \notin DOMAIN sch["properties"]
       \/ "properties" \notin DOMAIN sch["properties"][target_section]

\* append_required that starts a new list every time instead of appending
append_required_restarting(obj, name) == Put(obj, "required", <<name>>)

\* a required list after appending name, created when the object has none
append_required(obj, name) ==
    Put(obj, "required", Append(IF "required" \in DOMAIN obj THEN obj["required"] ELSE <<>>, name))

\* store_property that keeps every required name in the root's list, whatever the target
store_property_requiring_at_root(sch, target_section, name, node, required) ==
    LET sch1 == IF target_section # None
                THEN LET sec == sch["properties"][target_section]
                     IN  Put(sch, "properties",
                             Put(sch["properties"], target_section,
                                 Put(sec, "properties", Put(sec["properties"], name, node))))
                ELSE Put(sch, "properties", Put(sch["properties"], name, node))
    IN  IF required THEN append_required(sch1, name) ELSE sch1

\* lines 292-297 and 322-337: node is stored under name in the target's properties and
\* name is appended to the target's required list when the parameter is required
store_property(sch, target_section, name, node, required) ==
    IF target_section # None
    THEN LET sec  == sch["properties"][target_section]
             sec1 == Put(sec, "properties", Put(sec["properties"], name, node))
             sec2 == IF required THEN append_required(sec1, name) ELSE sec1
         IN  Put(sch, "properties", Put(sch["properties"], target_section, sec2))
    ELSE LET sch1 == Put(sch, "properties", Put(sch["properties"], name, node))
         IN  IF required THEN append_required(sch1, name) ELSE sch1

\* self.schema after the parameter param_info is added under target_section
add_property(sch, target_section, param_info) ==
    store_property(sch, target_section, param_info.name, property_schema(param_info),
                   param_info.required)

\* the documents a generator object that has parsed before is given
ReuseDocs == SeqsUpTo(FullLines, MaxReuseLines)

(***************************************************************************)
(* State.                                                                  *)
(***************************************************************************)
VARIABLES
    schema,           \* self.schema of the generator object
    lines,            \* the lines read by the running (or last) parse
    i,                \* index of the line the loop is at
    current_section,  \* None or the name of the innermost open section
    section_stack,    \* names of the open sections, outermost first
    pc,               \* "ready", "parsing", "returned" or "raised"
    parses,           \* number of parse_template_file calls made on the object
    fn,               \* the method applied on its own, "" when none is
    arg,              \* its arguments
    ret,              \* the value it returned
    scan,             \* the scan loop a parameter iteration is in, "none" outside one
    scan_i,           \* the index variable of that scan loop
    main_pc,          \* where main() is: "none" when the class is used as a library
    argv,             \* sys.argv
    fs,               \* the files: what the template path names, whether the output path can be written
    exit_code,        \* exit code of the process, NoExit while it runs
    out_file,         \* what was written to the output path, Absent when nothing was
    stdout            \* what was printed, in order

parse_vars == <<schema, lines, i, current_section, section_stack, pc, parses>>

call_vars == <<fn, arg, ret>>

scan_vars == <<scan, scan_i>>

main_vars == <<main_pc, argv, fs, exit_code, out_file, stdout>>

vars == <<parse_vars, call_vars, scan_vars, main_vars>>

NoExit == 0 - 1

\* DatadogSchemaGenerator(): the object after construction
ParseInit ==
    /\ schema = InitSchema
    /\ lines = <<>>
    /\ i = 0
    /\ current_section = None
    /\ section_stack = <<>>
    /\ pc = "ready"
    /\ parses = 0

\* no method is applied on its own
CallIdle == fn = "" /\ arg = <<>> /\ ret = <<>>

\* no scan loop is running
ScanIdle == scan = "none" /\ scan_i = 0

\* main() is not running
MainIdle ==
    /\ main_pc = "none" /\ argv = <<>> /\ exit_code = NoExit
    /\ fs = [template |-> "file", writable |-> TRUE]
    /\ out_file = Absent /\ stdout = <<>>

Init == ParseInit /\ CallIdle /\ ScanIdle /\ MainIdle

AtLine == pc = "parsing" /\ i < Len(lines)

\* parse_template_file is called on a file that holds one of docs: the file is read,
\* the locals are set
OpenOn(docs) ==
    /\ pc \in {"ready", "returned"}
    /\ parses < MaxParses
    /\ \E doc \in docs : lines' = doc
    /\ i' = 0
    /\ current_section' = None
    /\ section_stack' = <<>>
    /\ pc' = "parsing"
    /\ parses' = parses + 1
    /\ UNCHANGED schema

Open ==
    /\ OpenOn(IF parses = 0 THEN Docs
              ELSE IF Len(lines) <= MaxReuseLines THEN ReuseDocs
              ELSE {})
    /\ UNCHANGED <<call_vars, scan_vars, main_vars>>

\* an empty line is skipped
SkipEmpty ==
    /\ AtLine
    /\ IsEmptyLine(Line(lines, i))
    /\ i' = i + 1
    /\ UNCHANGED <<schema, lines, current_section, section_stack, pc, parses>>
    /\ UNCHANGED <<call_vars, scan_vars, main_vars>>

\* a template directive: one that contains 'end' pops the section stack
TemplateDirective ==
    /\ AtLine
    /\ IsTemplateDirective(Line(lines, i))
    /\ section_stack' = template_stack(section_stack, Line(lines, i))
    /\ current_section' = template_current(current_section, section_stack, Line(lines, i))
    /\ i' = i + 1
    /\ UNCHANGED <<schema, lines, pc, parses>>
    /\ UNCHANGED <<call_vars, scan_vars, main_vars>>

\* a '## @param' comment that mentions 'custom object'
SectionComment ==
    /\ AtLine
    /\ IsSectionComment(Line(lines, i))
    /\ LET section_name == Facts(Line(lines, i)).section_name
       IN  /\ current_section' = IF section_name # None THEN section_name ELSE current_section
           /\ section_stack' = IF section_name # None
                               THEN Append(section_stack, section_name)
                               ELSE section_stack
    /\ schema' = section_schema(schema, Line(lines, i))
    /\ i' = i + 1
    /\ UNCHANGED <<lines, pc, parses>>
    /\ UNCHANGED <<call_vars, scan_vars, main_vars>>

\* any other '## @param' comment: a property is added when the directive parses
ParamComment ==
    /\ AtLine
    /\ IsParamComment(Line(lines, i))
    /\ LET param_info     == param_info_at(lines, i)
           target_section == target_section_at(lines, i, current_section, section_stack)
       IN  IF param_info.matched
           THEN /\ ~ target_props_raises(schema, target_section)
                /\ schema' = add_property(schema, target_section, param_info)
           ELSE schema' = schema
    /\ i' = i + 1
    /\ UNCHANGED <<lines, current_section, section_stack, pc, parses>>
    /\ UNCHANGED <<call_vars, scan_vars, main_vars>>

\* the lookup of the target section's properties raises KeyError: the parse is abandoned
ParamCommentRaises ==
    /\ AtLine
    /\ IsParamComment(Line(lines, i))
    /\ param_info_at(lines, i).matched
    /\ target_props_raises(schema, target_section_at(lines, i, current_section, section_stack))
    /\ pc' = "raised"
    /\ UNCHANGED <<schema, lines, i, current_section, section_stack, parses>>
    /\ UNCHANGED <<call_vars, scan_vars, main_vars>>

\* a plain comment or a content line
OtherLine ==
    /\ AtLine
    /\ IsOtherLine(Line(lines, i))
    /\ i' = i + 1
    /\ UNCHANGED <<schema, lines, current_section, section_stack, pc, parses>>
    /\ UNCHANGED <<call_vars, scan_vars, main_vars>>

\* the loop ends: self.schema is returned
Return ==
    /\ pc = "parsing"
    /\ ~ (i < Len(lines))
    /\ pc' = "returned"
    /\ UNCHANGED <<schema, lines, i, current_section, section_stack, parses>>
    /\ UNCHANGED <<call_vars, scan_vars, main_vars>>

Next ==
    \/ Open
    \/ SkipEmpty
    \/ TemplateDirective
    \/ SectionComment
    \/ ParamComment
    \/ ParamCommentRaises
    \/ OtherLine
    \/ Return

Spec == Init /\ [][Next]_vars

(***************************************************************************)
(* parse_template_file as a function of the schema it starts from: the     *)
(* loop from index k on.  The result tells whether the parse raised and    *)
(* holds the schema returned when it did not.                              *)
(***************************************************************************)
RECURSIVE parse_loop(_, _, _, _, _)
parse_loop(sch, cur, stk, ls, k) ==
    IF ~ (k < Len(ls)) THEN [raised |-> FALSE, schema |-> sch]
    ELSE LET l == Line(ls, k)
         IN  IF IsEmptyLine(l) THEN parse_loop(sch, cur, stk, ls, k + 1)
             ELSE IF IsTemplateDirective(l)
             THEN parse_loop(sch, template_current(cur, stk, l), template_stack(stk, l), ls, k + 1)
             ELSE IF IsSectionComment(l)
             THEN LET section_name == Facts(l).section_name
                  IN  IF section_name # None
                      THEN parse_loop(section_schema(sch, l), section_name, Append(stk, section_name), ls, k + 1)
                      ELSE parse_loop(sch, cur, stk, ls, k + 1)
             ELSE IF IsParamComment(l) /\ param_info_at(ls, k).matched
             THEN LET target_section == target_section_at(ls, k, cur, stk)
                  IN  IF target_props_raises(sch, target_section)
                      THEN [raised |-> TRUE, schema |-> sch]
                      ELSE parse_loop(add_property(sch, target_section, param_info_at(ls, k)), cur, stk, ls, k + 1)
             ELSE parse_loop(sch, cur, stk, ls, k + 1)

\* DatadogSchemaGenerator().parse_template_file on the document ls
fresh_parse(ls) == parse_loop(InitSchema, None, <<>>, ls, 0)

(***************************************************************************)
(* Helpers of the properties.                                              *)
(***************************************************************************)
\* the parameter directive the loop is at, when it is at one the source parses
AtParam == AtLine /\ IsParamComment(Line(lines, i)) /\ param_info_at(lines, i).matched

\* the loop has just handled line i - 1, a parameter directive the source parsed
AfterParam ==
    /\ pc = "parsing" /\ i >= 1
    /\ IsParamComment(Line(lines, i - 1)) /\ param_info_at(lines, i - 1).matched

\* sch has a section node named n
IsSectionNode(sch, n) ==
    n \in DOMAIN sch["properties"] /\ "properties" \in DOMAIN sch["properties"][n]

\* the node stored under name in the properties of section target (None: of the root)
HasNode(sch, target, name, node) ==
    IF target # None
    THEN /\ IsSectionNode(sch, target)
         /\ name \in DOMAIN sch["properties"][target]["properties"]
         /\ sch["properties"][target]["properties"][name] = node
    ELSE /\ name \in DOMAIN sch["properties"]
         /\ sch["properties"][name] = node

\* the required list of an object, empty when the object has none
RequiredOf(obj) == IF "required" \in DOMAIN obj THEN obj["required"] ELSE <<>>

(***************************************************************************)
(* C1.  Once the file has been read, parse_template_file never aborts:     *)
(* on every document the loop runs to the last line and the schema is      *)
(* returned, no exception is raised.                                       *)
(* Refuted: a root-level parameter named like an open section replaces     *)
(* the section node by a node without 'properties'; the next parameter     *)
(* indented under that section raises KeyError.                            *)
(***************************************************************************)
C1_NeverAborts == pc # "raised"

(***************************************************************************)
(* C2.  No state crosses parse invocations: the schema a generator         *)
(* returns for its second document equals the schema a fresh generator     *)
(* returns for that document alone.                                        *)
(* Refuted: self.schema is built by __init__, not by the parse, so the     *)
(* entries of the first document stay in it.                               *)
(***************************************************************************)
C2_SecondParseAsFresh ==
    (pc = "returned" /\ parses = 2) =>
        /\ ~ fresh_parse(lines).raised
        /\ schema = fresh_parse(lines).schema

(***************************************************************************)
(* C3.  Every line that matches the parameter directive grammar and is     *)
(* not a section directive makes the loop insert one property node named   *)
(* after it into the resolved target mapping, whatever its type text and   *)
(* default text.                                                           *)
(* Refuted: a directive whose text contains 'custom object' (type 'list    *)
(* of custom objects', 'custom object' with flag 'required', a default     *)
(* that contains the words) takes the section branch, fails the section    *)
(* pattern and is skipped without a node.                                  *)
(***************************************************************************)
C3_EveryDirectiveInserts ==
    [][ ( /\ AtLine
          /\ Facts(Line(lines, i)).param_info.matched
          /\ Facts(Line(lines, i)).section_name = None
          /\ i' = i + 1 )
        => HasNode(schema',
                   target_section_at(lines, i, current_section, section_stack),
                   param_info_at(lines, i).name,
                   property_schema(param_info_at(lines, i))) ]_vars

\* the section stack when the loop reaches index k of the document ls
RECURSIVE stack_at(_, _)
stack_at(ls, k) ==
    IF k = 0 THEN <<>>
    ELSE LET l    == Line(ls, k - 1)
             prev == stack_at(ls, k - 1)
         IN  IF IsTemplateDirective(l) THEN template_stack(prev, l)
             ELSE IF IsSectionComment(l) /\ Facts(l).section_name # None
             THEN Append(prev, Facts(l).section_name)
             ELSE prev

\* a close marker before index k popped a section and no section directive lies between it and k
PoppedBefore(ls, k) ==
    \E j \in 0..(k - 1) :
        /\ IsTemplateDirective(Line(ls, j)) /\ Facts(Line(ls, j)).has_end
        /\ Len(stack_at(ls, j)) > 0
        /\ \A m \in (j + 1)..(k - 1) : Facts(Line(ls, m)).section_name = None

\* from sch to sch2 the node is stored under name in the mapping of target, and nothing else changes there
InsertedOnlyInto(sch, sch2, target, name, node) ==
    IF target # None
    THEN /\ IsSectionNode(sch, target) /\ IsSectionNode(sch2, target)
         /\ sch2["properties"][target]["properties"] = Put(sch["properties"][target]["properties"], name, node)
         /\ DOMAIN sch2["properties"] = DOMAIN sch["properties"]
         /\ \A n \in DOMAIN sch["properties"] \ {target} : sch2["properties"][n] = sch["properties"][n]
    ELSE sch2["properties"] = Put(sch["properties"], name, node)

\* the top of a non-empty stack
Top(stk) == stk[Len(stk)]

C5_IndentedInOpenSection ==
    [][ (AtParam /\ find_parameter_line_indent(lines, i) > 0 /\ Len(section_stack) > 0)
        => InsertedOnlyInto(schema, schema', Top(section_stack),
                            param_info_at(lines, i).name,
                            property_schema(param_info_at(lines, i))) ]_vars

TargetProps(sch, target) ==
    IF target # None THEN sch["properties"][target]["properties"] ELSE sch["properties"]

\* the node the parameter step at line k - 1 has just stored
StoredNode(k) ==
    TargetProps(schema, target_section_at(lines, k - 1, current_section, section_stack))
        [param_info_at(lines, k - 1).name]

\* the node that the step from the current state stores, read in the next state
StoredNodeNext ==
    TargetProps(schema', target_section_at(lines, i, current_section, section_stack))
        [param_info_at(lines, i).name]

PlaceholderTokens == { "<HOSTNAME_NAME>", "<ENDPOINT>:<PORT>", "<TAG_KEY>:<TAG_VALUE>" }

\* the raw default of param_info is written and is the empty text or a placeholder token
DefaultCoercesToNone(param_info) ==
    /\ param_info.default # Absent
    /\ param_info.default[1] = "" \/ param_info.default[1] \in PlaceholderTokens

(***************************************************************************)
(* C7.  As claimed: whenever the raw default of a parameter directive      *)
(* coerces to none (empty text or a placeholder token), the emitted node   *)
(* has no 'default' key, for every declared type.                          *)
(* Refuted: for an array type the node is given 'default': [].             *)
(***************************************************************************)
C7_NoDefaultKey ==
    [][ (AtParam /\ i' = i + 1 /\ DefaultCoercesToNone(param_info_at(lines, i)))
        => "default" \notin DOMAIN StoredNodeNext ]_vars

(***************************************************************************)
(* C7, amended.  Whenever the raw default of a parameter directive         *)
(* coerces to none, the emitted node has no 'default' key for every        *)
(* declared type that is not an array type; for an array type the node     *)
(* has the default [] that every array without a default of its own gets.  *)
(***************************************************************************)
C7_NoDefaultKeyUnlessArray ==
    [][ (AtParam /\ i' = i + 1 /\ DefaultCoercesToNone(param_info_at(lines, i)))
        => IF StoredNodeNext["type"] = "array"
           THEN "default" \in DOMAIN StoredNodeNext /\ StoredNodeNext["default"] = EmptyList
           ELSE "default" \notin DOMAIN StoredNodeNext ]_vars

\* a string parameter whose default is a placeholder token has just been stored without 'default'
C7_Witness ==
    /\ AfterParam
    /\ DefaultCoercesToNone(param_info_at(lines, i - 1))
    /\ StoredNode(i)["type"] = "string"
    /\ "default" \notin DOMAIN StoredNode(i)

(***************************************************************************)
(* C8.  When a parameter node is inserted, its name is appended to a       *)
(* required list iff the directive carries the flag 'required', and then   *)
(* to the list of exactly the mapping the node went into (the target       *)
(* section's list, the root list otherwise); a list is created on first    *)
(* use only and keeps the order of the directives.                         *)
(***************************************************************************)
C8_RequiredFollowsFlag ==
    [][ (AtParam /\ i' = i + 1)
        => LET info   == param_info_at(lines, i)
               target == target_section_at(lines, i, current_section, section_stack)
               rootAdd == info.required /\ target = None
           IN  /\ RequiredOf(schema') = IF rootAdd THEN Append(RequiredOf(schema), info.name)
                                                    ELSE RequiredOf(schema)
               /\ ("required" \in DOMAIN schema') <=> ("required" \in DOMAIN schema \/ rootAdd)
               /\ \A n \in DOMAIN schema'["properties"] :
                     (IsSectionNode(schema', n) /\ IsSectionNode(schema, n)) =>
                        LET old == schema["properties"][n]
                            new == schema'["properties"][n]
                            add == info.required /\ target = n
                        IN  /\ RequiredOf(new) = IF add THEN Append(RequiredOf(old), info.name)
                                                        ELSE RequiredOf(old)
                            /\ ("required" \in DOMAIN new) <=> ("required" \in DOMAIN old \/ add) ]_vars

\* a second required parameter has just been appended to the required list of a section
C8_Witness ==
    /\ AfterParam
    /\ param_info_at(lines, i - 1).required
    /\ current_section # None
    /\ target_section_at(lines, i - 1, current_section, section_stack) = current_section
    /\ IsSectionNode(schema, current_section)
    /\ Len(RequiredOf(schema["properties"][current_section])) = 2
    /\ RequiredOf(schema["properties"][current_section])[2] = param_info_at(lines, i - 1).name
    /\ RequiredOf(schema["properties"][current_section])[1] # param_info_at(lines, i - 1).name

(***************************************************************************)
(* C9.  A section directive named n sets the current section to n, pushes  *)
(* n on the section stack and sets root properties[n] to an object node    *)
(* with an empty 'properties' mapping; the node goes into the root         *)
(* properties mapping also when another section is open.                   *)
(***************************************************************************)
C9_SectionDirective ==
    [][ (AtLine /\ Facts(Line(lines, i)).section_name # None)
        => LET n == Facts(Line(lines, i)).section_name
           IN  /\ current_section' = n
               /\ section_stack' = Append(section_stack, n)
               /\ n \in DOMAIN schema'["properties"]
               /\ schema'["properties"][n]["type"] = "object"
               /\ "properties" \in DOMAIN schema'["properties"][n]
               /\ schema'["properties"][n]["properties"] = EmptyMap
               /\ DOMAIN schema'["properties"] = DOMAIN schema["properties"] \cup {n}
               /\ \A m \in DOMAIN schema["properties"] \ {n} :
                     schema'["properties"][m] = schema["properties"][m] ]_vars

\* a section directive has just been handled while another section was open
C9_Witness ==
    /\ pc = "parsing" /\ i >= 1
    /\ Facts(Line(lines, i - 1)).section_name # None
    /\ Len(section_stack) = 2
    /\ section_stack[1] # section_stack[2]
    /\ current_section = section_stack[2]
    /\ IsSectionNode(schema, section_stack[1])
    /\ IsSectionNode(schema, section_stack[2])
    /\ schema["properties"][section_stack[2]]["properties"] = EmptyMap

\* a parameter node has type and description, items iff array, additionalProperties: true iff object
ParamNodeShape(node) ==
    /\ "type" \in DOMAIN node
    /\ "description" \in DOMAIN node
    /\ ("items" \in DOMAIN node) <=> (node["type"] = "array")
    /\ ("additionalProperties" \in DOMAIN node) <=> (node["type"] = "object")
    /\ ("additionalProperties" \in DOMAIN node) => node["additionalProperties"] = TRUE

ArrayTypeTexts ==
    { "list of strings", "list of key:value elements", "list of custom objects",
      "space separated list of strings" }

\* the item type of an array type text
ElementType(t) == IF t = "list of custom objects" THEN "object" ELSE "string"

IsMalformed(l) == Facts(l).is_param /\ ~ Facts(l).param_info.matched

\* the description texts from index k on when a malformed directive counts as a plain
\* comment: the scan ends at a well-formed directive or an '@env' marker only
RECURSIVE plain_comment_description_lines(_, _)
plain_comment_description_lines(ls, k) ==
    IF ~ (k < Len(ls) /\ Facts(Line(ls, k)).is_comment) THEN <<>>
    ELSE LET f == Facts(Line(ls, k))
         IN  IF (f.is_param /\ f.param_info.matched) \/ f.is_env THEN <<>>
             ELSE (IF f.desc_line # "" THEN <<f.desc_line>> ELSE <<>>)
                      \o plain_comment_description_lines(ls, k + 1)

(***************************************************************************)
(* C11.  As claimed: a comment line that starts with '## @param' and       *)
(* fails the directive grammar is a plain comment everywhere: the step     *)
(* over it changes neither the section stack, nor the current section,     *)
(* nor the schema, and the description of a parameter whose comment block  *)
(* holds such a line is the text of the whole block, that line included.   *)
(* Refuted: extract_description ends its scan at every line that starts    *)
(* with '## @param', malformed or not, so the rest of the block is lost.   *)
(***************************************************************************)
C11_MalformedIsPlainComment ==
    [][ /\ (AtLine /\ IsMalformed(Line(lines, i)))
            => /\ section_stack' = section_stack
               /\ current_section' = current_section
               /\ schema' = schema
        /\ (AtParam /\ i' = i + 1)
            => StoredNodeNext["description"] = join(plain_comment_description_lines(lines, i + 1)) ]_vars

(***************************************************************************)
(* C17.  In every state reached during a parse the current section is the  *)
(* top of the section stack when the stack is non-empty, and none when it  *)
(* is empty.                                                               *)
(***************************************************************************)
C17_CurrentIsTop ==
    current_section = IF Len(section_stack) > 0 THEN Top(section_stack) ELSE None

\* a close marker has just popped the inner of two open sections: the outer one is current
C17_Witness ==
    /\ pc = "parsing" /\ i >= 1
    /\ IsTemplateDirective(Line(lines, i - 1)) /\ Facts(Line(lines, i - 1)).has_end
    /\ Len(stack_at(lines, i - 1)) = 2
    /\ Len(section_stack) = 1
    /\ section_stack[1] # stack_at(lines, i - 1)[2]
    /\ current_section = section_stack[1]

\* position k of s holds the token 'end': the letters, with no word character on either side
EndTokenAt(s, k) ==
    /\ MatchAt(s, k, "end")
    /\ k = 1 \/ Char(s, k - 1) \notin WordChars
    /\ k + 3 > Len(s) \/ Char(s, k + 3) \notin WordChars

\* the template-control lines that carry the token 'end'
CloseMarkers ==
    { l \in KnownLines :
        /\ startswith(strip(l), "{{")
        /\ \E k \in 1..Len(strip(l)) : EndTokenAt(strip(l), k) }

\* the template-control lines that do not
OpenMarkers == { l \in KnownLines : startswith(strip(l), "{{") } \ CloseMarkers

(***************************************************************************)
(* C18.  A template close marker pops exactly one entry from a non-empty   *)
(* section stack and makes the new top (or none) the current section; on   *)
(* an empty stack it changes neither and raises no error: the loop goes    *)
(* on to the next line.  In both cases the schema is left unchanged.       *)
(***************************************************************************)
C18_CloseMarkerPopsOne ==
    [][ (AtLine /\ Line(lines, i) \in CloseMarkers)
        => /\ schema' = schema
           /\ pc' = "parsing" /\ i' = i + 1
           /\ IF Len(section_stack) > 0
              THEN /\ section_stack' = SubSeq(section_stack, 1, Len(section_stack) - 1)
                   /\ current_section' = IF Len(section_stack) > 1
                                         THEN section_stack[Len(section_stack) - 1]
                                         ELSE None
              ELSE /\ section_stack' = section_stack
                   /\ current_section' = current_section ]_vars

\* a close marker met an empty stack earlier in the parse, and one has just popped a section
C18_Witness ==
    /\ pc = "parsing" /\ i >= 2
    /\ Line(lines, i - 1) \in CloseMarkers
    /\ Len(stack_at(lines, i - 1)) = 1
    /\ section_stack = <<>> /\ current_section = None
    /\ \E j \in 0..(i - 2) : Line(lines, j) \in CloseMarkers /\ stack_at(lines, j) = <<>>

(***************************************************************************)
(* C19.  As claimed: a template-control line that is not a close marker,   *)
(* such as '{{ if .Backend }}' where the letters 'end' stand inside        *)
(* another word, leaves the section stack, the current section and the     *)
(* schema unchanged.                                                       *)
(* Refuted: the loop tests whether the line contains the letters 'end',    *)
(* so '{{ if .Backend }}' pops the open section.                           *)
(***************************************************************************)
C19_OpenBlockChangesNothing ==
    [][ (AtLine /\ Line(lines, i) \in OpenMarkers)
        => /\ section_stack' = section_stack
           /\ current_section' = current_section
           /\ schema' = schema ]_vars

(***************************************************************************)
(* The methods applied on their own.  Each action applies one method of    *)
(* a new generator object to arguments drawn from a bounded set and keeps  *)
(* the arguments and the value returned.                                   *)
(***************************************************************************)
\* str.upper() on the letters of the type table
RECURSIVE upper(_)
upper(s) ==
    IF s = "" THEN ""
    ELSE LET c == Head(s)
         IN  (IF \E u \in DOMAIN UpperToLower : UpperToLower[u] = c
              THEN CHOOSE u \in DOMAIN UpperToLower : UpperToLower[u] = c
              ELSE c) \o upper(Tail(s))

\* the type table as the specification lists it
TypeTable ==
    ("string" :> "string") @@ ("boolean" :> "boolean") @@ ("integer" :> "integer")
        @@ ("number" :> "number") @@ ("duration" :> "string") @@ ("map" :> "object")
        @@ ("custom object" :> "object") @@ ("list of strings" :> "array")
        @@ ("list of key:value elements" :> "array") @@ ("list of custom objects" :> "array")
        @@ ("space separated list of strings" :> "array")
        @@ ("list of key:value strings" :> "object")

JsonTypes == {"string", "boolean", "integer", "number", "array", "object"}

\* the spellings of a text: as written, in capitals, capitalised
Cased(t) ==
    IF t = "" THEN {t} ELSE {t, upper(t), upper(SubSeq(t, 1, 1)) \o SubSeq(t, 2, Len(t))}

\* a text with whitespace around it
Padded(t) == {t, " " \o t, t \o " ", "\t" \o t \o "  "}

\* the texts that are the table entry t up to case and surrounding whitespace
TableInputs(t) == UNION { Padded(c) : c \in Cased(t) }

\* texts that are no table entry, however cased and trimmed
OtherTypeTexts ==
    { "", " ", "ip address", "strings", "list", "list of string", "list  of strings",
      "str ing", "int", "bool", "array", "object", "list of strings.", "custom objects",
      "string,", "map of strings", "key:value", "comma-separated list" }

TypeInputs ==
    UNION { TableInputs(t) : t \in DOMAIN TypeTable }
        \cup UNION { TableInputs(t) : t \in OtherTypeTexts }

\* generator.yaml_type_to_json_type(t)
CallTypeCoercion ==
    /\ fn = ""
    /\ \E t \in TypeInputs :
          /\ arg' = <<t>>
          /\ ret' = yaml_type_to_json_type(t)
    /\ fn' = "yaml_type_to_json_type"
    /\ UNCHANGED <<parse_vars, scan_vars, main_vars>>

\* the fields of the directives that are written and parsed back
RoundTripNames == {"key", "log_level", "a1", "DD_SITE"}

RoundTripTypes ==
    { "string", "list of strings", "list of key:value elements", "custom object",
      "ip address", "x", "comma-separated list", "key-value pairs" }

RoundTripDefaults ==
    { "30", "true", "\"/var/log\"", "<HOSTNAME_NAME>", "two words", "a - b", "- x", "x -",
      "default: 5" }

\* generator.parse_param_comment(line) on the line that spells the fields n, t, f, d
CallParseParam ==
    /\ fn = ""
    /\ \E n \in RoundTripNames, t \in RoundTripTypes, f \in {"optional", "required"},
          d \in {Absent} \cup {Present(x) : x \in RoundTripDefaults} :
          /\ arg' = <<n, t, f, d>>
          /\ ret' = parse_param_comment(Directive(n, t, f, d))
    /\ fn' = "parse_param_comment"
    /\ UNCHANGED <<parse_vars, scan_vars, main_vars>>

\* raw default texts: booleans and integers in the spellings int() and lower() accept,
\* and texts that coerce to other kinds
DefaultInputs ==
    { "true", "false", "True", "FALSE", "tRuE", " true ", "0", "30", "-5", "+007", "1_000",
      "-0", " 42\t", "-1_2", "1.5", "1e3", "0x10", "--5", "5-", "1__0", "_1", "3_", "info",
      "yes", "\"30\"", "'true'", "", " ", "<HOSTNAME_NAME>" }

\* generator.parse_default_value(d)
CallParseDefault ==
    /\ fn = ""
    /\ \E d \in DefaultInputs :
          /\ arg' = <<d>>
          /\ ret' = parse_default_value(d)
    /\ fn' = "parse_default_value"
    /\ UNCHANGED <<parse_vars, scan_vars, main_vars>>

\* generator.extract_description(ls, idx)
CallExtractDescription ==
    /\ fn = ""
    /\ \E ls \in DescDocs :
          \E idx \in 0..(Len(ls) - 1) :
              /\ arg' = <<ls, idx>>
              /\ ret' = extract_description(ls, idx)
    /\ fn' = "extract_description"
    /\ UNCHANGED <<parse_vars, scan_vars, main_vars>>

\* generator.find_parameter_line_indent(ls, idx)
CallFindIndent ==
    /\ fn = ""
    /\ \E ls \in IndentDocs :
          \E idx \in 0..(Len(ls) - 1) :
              /\ arg' = <<ls, idx>>
              /\ ret' = find_parameter_line_indent(ls, idx)
    /\ fn' = "find_parameter_line_indent"
    /\ UNCHANGED <<parse_vars, scan_vars, main_vars>>

\* generator.find_section_context(ls, idx)
CallFindContext ==
    /\ fn = ""
    /\ \E ls \in ContextDocs :
          \E idx \in 0..Len(ls) :
              /\ arg' = <<ls, idx>>
              /\ ret' = find_section_context(ls, idx)
    /\ fn' = "find_section_context"
    /\ UNCHANGED <<parse_vars, scan_vars, main_vars>>

CallNext ==
    \/ CallTypeCoercion
    \/ CallParseParam
    \/ CallParseDefault
    \/ CallExtractDescription
    \/ CallFindIndent
    \/ CallFindContext

CallSpec == Init /\ [][CallNext]_vars

(***************************************************************************)
(* C12.  yaml_type_to_json_type is total and a function of its argument:   *)
(* every text maps to one of string, boolean, integer, number, array,      *)
(* object; a text that is one of the twelve table entries up to case and   *)
(* surrounding whitespace maps as the table lists; every other text maps   *)
(* to string.  The call leaves the generator object as it was.             *)
(***************************************************************************)
C12_TypeCoercionTotal ==
    fn = "yaml_type_to_json_type"
    => /\ ret \in JsonTypes
       /\ \A t \in DOMAIN TypeTable : arg[1] \in TableInputs(t) => ret = TypeTable[t]
       /\ (\A t \in DOMAIN TypeTable : arg[1] \notin TableInputs(t)) => ret = "string"
       /\ schema = InitSchema

\* a table entry written in capitals between a tab and two spaces was mapped to array
C12_Witness ==
    /\ fn = "yaml_type_to_json_type"
    /\ arg = <<"\tLIST OF KEY:VALUE ELEMENTS  ">>
    /\ ret = "array"

(***************************************************************************)
(* C13.  As claimed: parse_param_comment round-trips.  For every           *)
(* identifier name, every type text without an embedded ' - ' (a hyphen    *)
(* inside a word included), either flag, and an absent or non-empty        *)
(* trimmed default, the line that spells the fields in the directive       *)
(* grammar parses to the same name, type text, flag and raw default.       *)
(* Refuted: the pattern takes the type text from [^-]+, so a line whose    *)
(* type text holds a hyphen does not match at all.                         *)
(***************************************************************************)
C13_ParamRoundTrips ==
    fn = "parse_param_comment"
    => /\ ret.matched
       /\ ret.name = arg[1]
       /\ ret.type = arg[2]
       /\ ret.required = (arg[3] = "required")
       /\ ret.default = arg[4]

(***************************************************************************)
(* The text form of a coerced value: str(True) is 'True', str(False) is    *)
(* 'False', str(n) is the decimal numeral of n with '-' when n < 0.        *)
(***************************************************************************)
DigitText(n) ==
    CASE n = 0 -> "0" [] n = 1 -> "1" [] n = 2 -> "2" [] n = 3 -> "3" [] n = 4 -> "4"
      [] n = 5 -> "5" [] n = 6 -> "6" [] n = 7 -> "7" [] n = 8 -> "8" [] n = 9 -> "9"

RECURSIVE NumeralOf(_)
NumeralOf(n) ==
    IF n < 10 THEN DigitText(n) ELSE NumeralOf(n \div 10) \o DigitText(n % 10)

TextOf(v) ==
    IF v.kind = "bool" THEN (IF v.num = 1 THEN "True" ELSE "False")
    ELSE IF v.num < 0 THEN "-" \o NumeralOf(0 - v.num)
    ELSE NumeralOf(v.num)

(***************************************************************************)
(* C14.  parse_default_value is idempotent on typed literals: when the     *)
(* coercion v of a raw default text is a boolean or an integer, the        *)
(* coercion of the text form of v is v again.                              *)
(***************************************************************************)
C14_DefaultCoercionIdempotent ==
    (fn = "parse_default_value" /\ ret.kind \in {"bool", "int"})
    => parse_default_value(TextOf(ret)) = ret

\* '+007' was coerced to the integer 7, whose text form '7' is another text
C14_Witness ==
    /\ fn = "parse_default_value"
    /\ arg = <<"+007">>
    /\ ret = IntValue(7)
    /\ TextOf(ret) = "7"
    /\ parse_default_value("7") = ret

(***************************************************************************)
(* Helpers of the property of extract_description.                         *)
(***************************************************************************)
\* the line starts, after trimming, with the comment marker
CommentPrefixed(l) == startswith(strip(l), "##")

\* the line starts, after trimming, with the directive marker or the '@env' marker
DirectiveMarked(l) == startswith(strip(l), "## @param") \/ startswith(strip(l), "## @env")

\* index j ends the comment block: the document ends, or line j is no comment, or it is marked
EndsBlock(ls, j) ==
    j >= Len(ls) \/ ~ CommentPrefixed(Line(ls, j)) \/ DirectiveMarked(Line(ls, j))

\* the first index after idx that ends the block
BlockEnd(ls, idx) ==
    CHOOSE j \in (idx + 1)..Len(ls) :
        EndsBlock(ls, j) /\ \A m \in (idx + 1)..(j - 1) : ~ EndsBlock(ls, m)

\* the text of a comment line without the marker and the whitespace around it
MarkerStripped(l) == strip(SubSeq(strip(l), 3, Len(strip(l))))

NonEmptyText(t) == t # ""

\* the non-empty texts of the lines idx + 1 .. BlockEnd - 1, in order
BlockTexts(ls, idx) ==
    SelectSeq([m \in 1..(BlockEnd(ls, idx) - idx - 1) |-> MarkerStripped(Line(ls, idx + m))],
              NonEmptyText)

ScanLines ==
    { "## @param logs - custom object - optional",
      "## @param path - string - required - default: <HOSTNAME_NAME>",
      "## @param",
      "## Log settings.",
      "",
      "{{ end }}",
      "  path: /var/log" }

ScanDocs == SeqsUpTo(ScanLines, MaxScanLines)

\* parse_template_file is called once, on a new object
ScanOpen ==
    /\ pc = "ready"
    /\ OpenOn(ScanDocs)
    /\ UNCHANGED <<call_vars, scan_vars, main_vars>>

\* a '## @param' comment that parse_param_comment does not match
ParamUnparsed ==
    /\ AtLine /\ scan = "none"
    /\ IsParamComment(Line(lines, i))
    /\ ~ param_info_at(lines, i).matched
    /\ i' = i + 1
    /\ UNCHANGED <<schema, lines, current_section, section_stack, pc, parses>>
    /\ UNCHANGED <<call_vars, scan_vars, main_vars>>

\* a parameter comment was parsed: extract_description starts at the next line
ScanBegin ==
    /\ AtLine /\ scan = "none"
    /\ IsParamComment(Line(lines, i))
    /\ param_info_at(lines, i).matched
    /\ scan' = "description"
    /\ scan_i' = i + 1
    /\ UNCHANGED <<parse_vars, call_vars, main_vars>>

\* the loop of extract_description goes on at index n: a comment line that is no marker
description_continues(ls, n) ==
    /\ n < Len(ls)
    /\ Facts(Line(ls, n)).is_comment
    /\ ~ (Facts(Line(ls, n)).is_param \/ Facts(Line(ls, n)).is_env)

\* DescriptionStep without 'i += 1': the loop stays at the same line
DescriptionStep_stuck ==
    /\ scan = "description"
    /\ description_continues(lines, scan_i)
    /\ UNCHANGED vars

DescriptionStep ==
    /\ scan = "description"
    /\ description_continues(lines, scan_i)
    /\ scan_i' = scan_i + 1
    /\ UNCHANGED <<scan, parse_vars, call_vars, main_vars>>

\* extract_description returns: find_parameter_line_indent starts at the next line
DescriptionEnd ==
    /\ scan = "description"
    /\ ~ description_continues(lines, scan_i)
    /\ scan' = "skip"
    /\ scan_i' = i + 1
    /\ UNCHANGED <<parse_vars, call_vars, main_vars>>

\* the first loop of find_parameter_line_indent goes on at index n
skip_continues(ls, n) == n < Len(ls) /\ Facts(Line(ls, n)).is_comment

SkipStep ==
    /\ scan = "skip"
    /\ skip_continues(lines, scan_i)
    /\ scan_i' = scan_i + 1
    /\ UNCHANGED <<scan, parse_vars, call_vars, main_vars>>

SkipEnd ==
    /\ scan = "skip"
    /\ ~ skip_continues(lines, scan_i)
    /\ scan' = "find"
    /\ UNCHANGED <<scan_i, parse_vars, call_vars, main_vars>>

\* the second loop of find_parameter_line_indent goes on at index n: no parameter line yet
find_continues(ls, n) ==
    /\ n < Len(ls)
    /\ ~ (Facts(Line(ls, n)).line # "" /\ ~ Facts(Line(ls, n)).is_comment
             /\ ~ Facts(Line(ls, n)).is_template)

FindStep ==
    /\ scan = "find"
    /\ find_continues(lines, scan_i)
    /\ scan_i' = scan_i + 1
    /\ UNCHANGED <<scan, parse_vars, call_vars, main_vars>>

\* what find_parameter_line_indent returns when its second loop ends at index n
found_indent(ls, n) == IF n < Len(ls) THEN Facts(Line(ls, n)).indent_level ELSE 0

\* the rest of the iteration once target_section is known: the node is stored, or the
\* lookup of the target section raises
Finish(target_section) ==
    /\ IF target_props_raises(schema, target_section)
       THEN pc' = "raised" /\ UNCHANGED <<schema, i>>
       ELSE /\ schema' = add_property(schema, target_section, param_info_at(lines, i))
            /\ i' = i + 1
            /\ pc' = pc
    /\ scan' = "none"
    /\ scan_i' = 0
    /\ UNCHANGED <<lines, current_section, section_stack, parses, call_vars, main_vars>>

\* the indent is known and determine_target_section decides the target
FindEndStore ==
    /\ scan = "find"
    /\ ~ find_continues(lines, scan_i)
    /\ LET param_line_indent == found_indent(lines, scan_i)
           target == determine_target_section(current_section, param_line_indent, section_stack)
       IN  /\ ~ (target = None /\ param_line_indent > 0)
           /\ Finish(target)

\* no target and an indented line: find_section_context starts at the line before
FindEndContext ==
    /\ scan = "find"
    /\ ~ find_continues(lines, scan_i)
    /\ LET param_line_indent == found_indent(lines, scan_i)
           target == determine_target_section(current_section, param_line_indent, section_stack)
       IN  target = None /\ param_line_indent > 0
    /\ scan' = "context"
    /\ scan_i' = i - 1
    /\ UNCHANGED <<parse_vars, call_vars, main_vars>>

\* line l is a section comment whose name parses: the backward loop returns it
context_found(l) ==
    Facts(l).is_param /\ Facts(l).has_custom_object /\ Facts(l).section_name # None

\* the backward loop goes on at index n
context_continues(ls, n) ==
    /\ n >= 0
    /\ ~ context_found(Line(ls, n))
    /\ ~ (Facts(Line(ls, n)).is_template /\ Facts(Line(ls, n)).has_end)

ContextStep ==
    /\ scan = "context"
    /\ context_continues(lines, scan_i)
    /\ scan_i' = scan_i - 1
    /\ UNCHANGED <<scan, parse_vars, call_vars, main_vars>>

\* find_section_context returns: the section found, or None
ContextEnd ==
    /\ scan = "context"
    /\ ~ context_continues(lines, scan_i)
    /\ Finish(IF scan_i >= 0 /\ context_found(Line(lines, scan_i))
              THEN Facts(Line(lines, scan_i)).section_name
              ELSE None)

ScanNext ==
    \/ ScanOpen
    \/ SkipEmpty
    \/ TemplateDirective
    \/ SectionComment
    \/ OtherLine
    \/ Return
    \/ ParamUnparsed
    \/ ScanBegin
    \/ DescriptionStep
    \/ DescriptionEnd
    \/ SkipStep
    \/ SkipEnd
    \/ FindStep
    \/ FindEndStore
    \/ FindEndContext
    \/ ContextStep
    \/ ContextEnd

\* the interpreter runs the loops on: a step that can be taken is taken
ScanSpec == Init /\ [][ScanNext]_vars /\ WF_vars(ScanNext)

(***************************************************************************)
(* C15.  A parse terminates on a finite document.  Every iteration of the  *)
(* driver loop that does not raise moves the driver index up by one, never *)
(* beyond the document length; every iteration of the description scan     *)
(* and of the two loops of the indentation scan moves the scan index up by *)
(* one, never beyond the document length; every iteration of the backward  *)
(* context scan moves it down by one, never below -1; and every parse      *)
(* that has started returns or raises.                                     *)
(***************************************************************************)
C15_ParseTerminates ==
    /\ [][ /\ (pc = "parsing" /\ pc' = "parsing")
               => IF scan' = "none" THEN i' = i + 1 /\ i' <= Len(lines) ELSE i' = i
           /\ (scan \in {"description", "skip", "find"} /\ scan' = scan)
               => scan_i' = scan_i + 1 /\ scan_i' <= Len(lines)
           /\ (scan = "context" /\ scan' = scan)
               => scan_i' = scan_i - 1 /\ scan_i' >= 0 - 1 ]_vars
    /\ (pc = "parsing") ~> (pc \in {"returned", "raised"})

\* in the second or a later iteration of the driver the backward scan has run down to the
\* start of the document, after the forward loops of that iteration passed a comment line
C15_Witness ==
    /\ pc = "parsing" /\ i >= 1
    /\ scan = "context" /\ scan_i = 0 - 1
    /\ description_continues(lines, i + 1)

(***************************************************************************)
(* main(): one command-line run.  argv[1] is the script, argv[2] the       *)
(* template path.  The log file named after '--log-file' can be opened.    *)
(***************************************************************************)
ArgWords == {"out.json", "--debug", "--log-file"}

ArgLists ==
    { <<"generate_datadog_schema.py">> }
        \cup { <<"generate_datadog_schema.py", "config_template.yaml">> \o a :
                  a \in SeqsUpTo(ArgWords, MaxArgs) }

\* what the template path names: nothing, something open() cannot read, a file;
\* and whether open(output_path, 'w') succeeds
FileSystems == [template : {"missing", "unreadable", "file"}, writable : BOOLEAN]

MainLines == CoreLines \cup {""}

\* the contents of the template file: short documents, and one on which the parse raises
MainDocs ==
    SeqsUpTo(MainLines, MaxMainLines)
        \cup { << "## @param logs - custom object - optional",
                  "## @param logs - string - required",
                  "logs:",
                  "## @param path - string - required - default: <HOSTNAME_NAME>",
                  "  path: /var/log" >> }

\* the loop over sys.argv[2:], from index n (0-based) on
RECURSIVE parse_args(_, _, _)
parse_args(av, n, opts) ==
    IF ~ (n < Len(av)) THEN opts
    ELSE LET a == Line(av, n)
         IN  IF a = "--debug" THEN parse_args(av, n + 1, [opts EXCEPT !.debug = TRUE])
             ELSE IF a = "--log-file" /\ n + 1 < Len(av)
             THEN parse_args(av, n + 2, [opts EXCEPT !.log_file = Present(Line(av, n + 1))])
             ELSE IF ~ startswith(a, "--") /\ opts.output_path = Absent
             THEN parse_args(av, n + 1, [opts EXCEPT !.output_path = Present(a)])
             ELSE parse_args(av, n + 1, opts)

\* output_path, debug and log_file as main() sets them
Options == parse_args(argv, 2, [output_path |-> Absent, debug |-> FALSE, log_file |-> Absent])

MainInit ==
    /\ ParseInit /\ CallIdle /\ ScanIdle
    /\ main_pc = "start"
    /\ argv \in ArgLists
    /\ fs \in FileSystems
    /\ exit_code = NoExit
    /\ out_file = Absent
    /\ stdout = <<>>

\* the process ends with exit code c after printing text
Exit(c, text) ==
    /\ exit_code' = c
    /\ stdout' = Append(stdout, text)
    /\ main_pc' = "exited"
    /\ UNCHANGED <<argv, fs, out_file, parse_vars, call_vars, scan_vars>>

\* no template path: the usage text is printed
MainUsage ==
    /\ main_pc = "start"
    /\ Len(argv) < 2
    /\ Exit(1, "Usage")

\* the template path names nothing
MainMissing ==
    /\ main_pc = "start"
    /\ Len(argv) >= 2
    /\ fs.template = "missing"
    /\ Exit(1, "Error: Template file not found")

\* the generator is constructed and generate_schema is called; with --debug and
\* --log-file the debug log goes to standard output too
MainGenerate ==
    /\ main_pc = "start"
    /\ Len(argv) >= 2
    /\ fs.template # "missing"
    /\ main_pc' = "generate"
    /\ stdout' = IF Options.debug /\ Options.log_file # Absent
                 THEN Append(stdout, "DEBUG") ELSE stdout
    /\ UNCHANGED <<argv, fs, exit_code, out_file, parse_vars, call_vars, scan_vars>>

\* parse_template_file reads the template file
MainOpen ==
    /\ main_pc = "generate"
    /\ pc = "ready"
    /\ fs.template = "file"
    /\ OpenOn(MainDocs)
    /\ UNCHANGED <<call_vars, scan_vars, main_vars>>

\* the schema was returned and an output path was given: it is written there
MainWrite ==
    /\ main_pc = "generate"
    /\ pc = "returned"
    /\ Options.output_path # Absent
    /\ fs.writable
    /\ out_file' = Present(schema)
    /\ exit_code' = 0
    /\ main_pc' = "exited"
    /\ UNCHANGED <<argv, fs, stdout, parse_vars, call_vars, scan_vars>>

\* the schema was returned and no output path was given: it is printed
MainPrint ==
    /\ main_pc = "generate"
    /\ pc = "returned"
    /\ Options.output_path = Absent
    /\ out_file' = out_file
    /\ exit_code' = 0
    /\ stdout' = Append(stdout, schema)
    /\ main_pc' = "exited"
    /\ UNCHANGED <<argv, fs, parse_vars, call_vars, scan_vars>>

\* the except branch without sys.exit(1): the run ends as a successful one
MainExcept_without_exit ==
    /\ main_pc = "generate"
    /\ \/ pc = "raised"
       \/ pc = "ready" /\ fs.template = "unreadable"
       \/ pc = "returned" /\ Options.output_path # Absent /\ ~ fs.writable
    /\ Exit(0, "Error generating schema")

\* generate_schema raised: the parse did, or open() of the template or of the output path
MainExcept ==
    /\ main_pc = "generate"
    /\ \/ pc = "raised"
       \/ pc = "ready" /\ fs.template = "unreadable"
       \/ pc = "returned" /\ Options.output_path # Absent /\ ~ fs.writable
    /\ Exit(1, "Error generating schema")

MainNext ==
    \/ MainUsage
    \/ MainMissing
    \/ MainGenerate
    \/ MainOpen
    \/ SkipEmpty
    \/ TemplateDirective
    \/ SectionComment
    \/ ParamComment
    \/ ParamCommentRaises
    \/ OtherLine
    \/ Return
    \/ MainWrite
    \/ MainPrint
    \/ MainExcept

MainSpec == MainInit /\ [][MainNext]_vars

\* schema generation raised an exception in the run that has ended
GenerationRaised ==
    \/ fs.template = "unreadable"
    \/ pc = "raised"
    \/ pc = "returned" /\ Options.output_path # Absent /\ ~ fs.writable

(***************************************************************************)
(* C16.  A command-line run that is given a template path ends with exit   *)
(* code 1 when the template file does not exist or when schema generation  *)
(* raises an exception, and with exit code 0 otherwise; with exit code 0   *)
(* the schema of the template has been written to the output path when     *)
(* one is given, and printed to standard output last when none is.         *)
(***************************************************************************)
C16_ExitCode ==
    (main_pc = "exited" /\ Len(argv) >= 2)
    => /\ exit_code = IF fs.template = "missing" \/ GenerationRaised THEN 1 ELSE 0
       /\ exit_code = 0
          => /\ schema = fresh_parse(lines).schema
             /\ IF Options.output_path # Absent
                THEN out_file = Present(schema)
                ELSE Len(stdout) >= 1 /\ stdout[Len(stdout)] = schema

\* a run whose only file argument is the value of --log-file, so that no output path is
\* given, printed the schema of a template with a section and a parameter and ended with 0
C16_Witness ==
    /\ main_pc = "exited" /\ exit_code = 0
    /\ argv = <<"generate_datadog_schema.py", "config_template.yaml", "--log-file", "out.json">>
    /\ out_file = Absent
    /\ stdout = <<schema>>
    /\ Len(lines) = 2 /\ DOMAIN schema["properties"] = {"logs", "path"}

(***************************************************************************)
(* Section resolution called on its own while a parse is under way: the    *)
(* generator is in any state of a parse of a short document or of the      *)
(* document that raises, and                                               *)
(* determine_target_section is called on it with any triple, any number of *)
(* times, between the iterations of the loop.                              *)
(***************************************************************************)
ResolveOpen ==
    /\ pc = "ready"
    /\ OpenOn(MainDocs)
    /\ UNCHANGED <<call_vars, scan_vars, main_vars>>

\* the triples determine_target_section is called with
ResolveTriples ==
    { <<c, n, stk>> : c \in {None, "logs", "apm"}, n \in {0, 2, 4},
                      stk \in {<<>>, <<"logs">>, <<"logs", "apm">>} }

\* a call that falls back on the generator's own current section when it is given none
CallDetermineTarget_reading_generator ==
    /\ \E t \in ResolveTriples :
          /\ arg' = t
          /\ ret' = determine_target_section(IF t[1] = None THEN current_section ELSE t[1],
                                              t[2], t[3])
    /\ fn' = "determine_target_section"
    /\ UNCHANGED <<parse_vars, scan_vars, main_vars>>

\* generator.determine_target_section(current_section, param_indent, section_stack)
CallDetermineTarget ==
    /\ \E t \in ResolveTriples :
          /\ arg' = t
          /\ ret' = determine_target_section(t[1], t[2], t[3])
    /\ fn' = "determine_target_section"
    /\ UNCHANGED <<parse_vars, scan_vars, main_vars>>

ResolveNext ==
    \/ ResolveOpen
    \/ SkipEmpty
    \/ TemplateDirective
    \/ SectionComment
    \/ ParamComment
    \/ ParamCommentRaises
    \/ OtherLine
    \/ Return
    \/ CallDetermineTarget

ResolveSpec == Init /\ [][ResolveNext]_vars

\* the result the triple alone determines
TargetOf(t) == IF t[2] > 0 /\ t[1] # None THEN t[1] ELSE None

(***************************************************************************)
(* C23.  Section resolution has no hidden state: in every state of the     *)
(* generator, the result of determine_target_section is the one its        *)
(* triple (current section, parameter indent, section stack) determines,   *)
(* whatever the parse has done before, and a call changes neither the      *)
(* section stack, the current section nor the schema.                      *)
(***************************************************************************)
C23_ResolutionHasNoHiddenState ==
    /\ [](fn = "determine_target_section" => ret = TargetOf(arg))
    /\ [][ call_vars' # call_vars => UNCHANGED <<section_stack, current_section, schema>> ]_vars

\* a parse has stored the parameter 'path' and opened the section 'logs'; the call is given
\* no current section and an indented parameter, and returns none
C23_Witness ==
    /\ pc = "parsing" /\ i = 2
    /\ current_section = "logs" /\ section_stack = <<"logs">>
    /\ "path" \in DOMAIN schema["properties"]
    /\ fn = "determine_target_section"
    /\ arg = <<None, 2, <<>>>>
    /\ ret = None

(***************************************************************************)
(* Helpers of the property of find_parameter_line_indent.                  *)
(***************************************************************************)
\* the number n of leading whitespace characters of l
LeadingWhitespaceCount(l) ==
    CHOOSE n \in 0..Len(l) :
        /\ \A c \in 1..n : Char(l, c) \in Whitespace
        /\ n = Len(l) \/ Char(l, n + 1) \notin Whitespace

\* the line is a template marker after trimming
TemplateMarked(l) == startswith(strip(l), "{{")

\* a line that is non-empty, not comment-prefixed and not a template marker
GenuineContent(l) == strip(l) # "" /\ ~ CommentPrefixed(l) /\ ~ TemplateMarked(l)

\* the first index after idx that holds no comment-prefixed line
CommentRunEnd(ls, idx) ==
    CHOOSE j \in (idx + 1)..Len(ls) :
        /\ j = Len(ls) \/ ~ CommentPrefixed(Line(ls, j))
        /\ \A m \in (idx + 1)..(j - 1) : CommentPrefixed(Line(ls, m))

\* the indexes of the content lines from index j on
ContentFrom(ls, j) == { m \in j..(Len(ls) - 1) : GenuineContent(Line(ls, m)) }

Least(S) == CHOOSE m \in S : \A x \in S : m <= x

(***************************************************************************)
(* C21.  find_parameter_line_indent(lines, i) returns the number of        *)
(* leading whitespace characters of the first line after the comment       *)
(* block of line i that is non-empty, not comment-prefixed and not a       *)
(* template marker, and 0 when the document ends before such a line.       *)
(***************************************************************************)
C21_IndentOfFirstContentLine ==
    fn = "find_parameter_line_indent"
    => LET content == ContentFrom(arg[1], CommentRunEnd(arg[1], arg[2]))
       IN  ret = IF content = {} THEN 0
                 ELSE LeadingWhitespaceCount(Line(arg[1], Least(content)))

\* the scan passed an indented template marker and returned the four leading blanks of a
\* line that also ends in blanks
C21_Witness ==
    /\ fn = "find_parameter_line_indent"
    /\ arg = << <<"## @param key - string - optional", "  {{ if .Backend }}", "    key: v  ">>, 0 >>
    /\ ret = 4

(***************************************************************************)
(* Helpers of the property of find_section_context.                        *)
(***************************************************************************)
\* the line is a section directive: it matches the section pattern
SectionDirective(l) == parse_section_comment(strip(l)) # None

\* the indexes below idx that hold a section directive, and those that hold a close marker
SectionsBelow(ls, idx) == { j \in 0..(idx - 1) : SectionDirective(Line(ls, j)) }

ClosesBelow(ls, idx) == { j \in 0..(idx - 1) : Line(ls, j) \in CloseMarkers }

Greatest(S) == CHOOSE m \in S : \A x \in S : m >= x

\* the name of the nearest section directive below idx when no close marker lies between
\* it and idx, none otherwise
NearestSection(ls, idx) ==
    LET secs == SectionsBelow(ls, idx)
    IN  IF secs # {} /\ \A c \in ClosesBelow(ls, idx) : c < Greatest(secs)
        THEN parse_section_comment(strip(Line(ls, Greatest(secs))))
        ELSE None

(***************************************************************************)
(* C22.  As claimed: find_section_context(lines, i) returns the name of    *)
(* the first section directive met walking from line i - 1 down to line 0  *)
(* when no template close marker lies between that directive and line i,   *)
(* and none when a close marker is met first or the start of the document  *)
(* is reached; the call changes neither the lines, the section stack nor   *)
(* the schema.                                                             *)
(* Refuted: the scan stops at any template-control line that contains the  *)
(* letters 'end', so an open marker such as '{{ if .Backend }}' between    *)
(* the section directive and line i makes it return none.                  *)
(***************************************************************************)
C22_ContextIsNearestSection ==
    fn = "find_section_context"
    => /\ ret = NearestSection(arg[1], arg[2])
       /\ lines = <<>> /\ section_stack = <<>> /\ schema = InitSchema

(***************************************************************************)
(* C24.  As claimed: within a parse the backward scan never selects a      *)
(* section: at a parameter directive reached with an empty section stack   *)
(* find_section_context returns none; so the parameter's node is inserted  *)
(* into a section's properties if and only if its configuration line is    *)
(* indented and the section stack is non-empty at the directive, and then  *)
(* into those of the top of the stack, and into the root's otherwise.      *)
(* Refuted through the fault of C1: when a root-level parameter has        *)
(* replaced the node of the open section, an indented parameter under a    *)
(* non-empty stack raises KeyError and is attached nowhere.                *)
(***************************************************************************)
C24_FallbackNeverSelects ==
    /\ [](AtParam /\ section_stack = <<>> => find_section_context(lines, i) = None)
    /\ [][ AtParam
            => InsertedOnlyInto(schema, schema',
                                IF find_parameter_line_indent(lines, i) > 0 /\ section_stack # <<>>
                                THEN Top(section_stack) ELSE None,
                                param_info_at(lines, i).name,
                                property_schema(param_info_at(lines, i))) ]_vars

\* the root properties hold under n an object node with a 'properties' mapping of its own
OpenSectionNode(sch, n) ==
    /\ IsSectionNode(sch, n)
    /\ sch["properties"][n]["type"] = "object"

(***************************************************************************)
(* C25.  As claimed: in every state of a parse, every name on the section  *)
(* stack, and so the current section, is a key of the root properties      *)
(* whose node is a section node: of type object, with a 'properties'       *)
(* mapping of its own.                                                     *)
(* Refuted: a parameter directive named like an open section whose         *)
(* configuration line has indentation 0 stores its plain node under that   *)
(* name in the root properties and so replaces the section node while the  *)
(* section is still on the stack.                                          *)
(***************************************************************************)
C25_OpenSectionsAreSectionNodes ==
    pc = "parsing"
    => /\ \A n \in 1..Len(section_stack) : OpenSectionNode(schema, section_stack[n])
       /\ current_section # None => OpenSectionNode(schema, current_section)

(***************************************************************************)
(* Helpers of the property of the parameters collected by a parse.         *)
(***************************************************************************)
\* the mapping of target (None: of the root) has the key name
HasName(sch, target, name) ==
    IF target # None
    THEN IsSectionNode(sch, target) /\ name \in DOMAIN sch["properties"][target]["properties"]
    ELSE name \in DOMAIN sch["properties"]

\* the section the loop resolves for the parameter directive at index k of ls
TargetAt(ls, k) ==
    LET stk == stack_at(ls, k)
    IN  target_section_at(ls, k, IF stk = <<>> THEN None ELSE Top(stk), stk)

\* the indexes of the parameter directives of ls the loop parses
ParamIndexes(ls) ==
    { k \in 0..(Len(ls) - 1) : IsParamComment(Line(ls, k)) /\ param_info_at(ls, k).matched }

(***************************************************************************)
(* C26.  As claimed: a parameter that was inserted into the properties of  *)
(* a section or of the root is present under the same mapping in the       *)
(* schema the parse returns, whatever lines follow it.                     *)
(* Refuted: a later section directive of the same section name stores a    *)
(* new section node with empty properties, and a later root-level          *)
(* parameter named like the section stores its plain node there; both      *)
(* drop the parameters the section had collected.                          *)
(***************************************************************************)
C26_CollectedNeverLost ==
    pc = "returned"
    => \A k \in ParamIndexes(lines) :
          HasName(schema, TargetAt(lines, k), param_info_at(lines, k).name)

\* every name of the required list of obj is a key of the properties of obj
RequiredWithinProperties(obj) ==
    "required" \in DOMAIN obj
    => /\ "properties" \in DOMAIN obj
       /\ \A n \in 1..Len(obj["required"]) : obj["required"][n] \in DOMAIN obj["properties"]

(***************************************************************************)
(* C27.  In every state of a parse, at the root and in every node of the   *)
(* root properties, every name of the 'required' list is a key of the      *)
(* 'properties' mapping of the same node.                                  *)
(***************************************************************************)
C27_RequiredWithinProperties ==
    /\ RequiredWithinProperties(schema)
    /\ \A n \in DOMAIN schema["properties"] : RequiredWithinProperties(schema["properties"][n])

\* the parse is under way and both the root and the section 'logs' have a required name
C27_Witness ==
    /\ pc = "parsing"
    /\ RequiredOf(schema) # <<>>
    /\ IsSectionNode(schema, "logs")
    /\ RequiredOf(schema["properties"]["logs"]) # <<>>

(***************************************************************************)
(* Helpers of the property of the line a parameter's indentation is taken  *)
(* from.                                                                   *)
(***************************************************************************)
\* the first index after idx that holds a parameter or section directive, Len(ls) if none
NextDirective(ls, idx) ==
    CHOOSE j \in (idx + 1)..Len(ls) :
        /\ j = Len(ls) \/ startswith(strip(Line(ls, j)), ParamPrefix)
        /\ \A m \in (idx + 1)..(j - 1) : ~ startswith(strip(Line(ls, m)), ParamPrefix)

\* the indexes of the content lines between idx and the next directive
OwnContent(ls, idx) ==
    { m \in (idx + 1)..(NextDirective(ls, idx) - 1) : GenuineContent(Line(ls, m)) }

(***************************************************************************)
(* C28.  As claimed: find_parameter_line_indent(lines, i) never returns    *)
(* the indentation of a line that lies after the next parameter or         *)
(* section directive: the result is the indentation of the first content   *)
(* line before that directive, and 0 when there is none.                   *)
(* Refuted: both loops pass over every comment-prefixed line, directives   *)
(* included, so the scan runs on into the block of the next directive and  *)
(* returns the indentation of that directive's configuration line.         *)
(***************************************************************************)
C28_IndentFromOwnLine ==
    fn = "find_parameter_line_indent"
    => ret = IF OwnContent(arg[1], arg[2]) = {} THEN 0
             ELSE LeadingWhitespaceCount(Line(arg[1], Least(OwnContent(arg[1], arg[2]))))

====
